---- MODULE Spec2Model ----
(***************************************************************************)
(* The frame loop of react-spring's core (FrameLoop): the registry of      *)
(* controllers, the idle flag, the last-tick timestamp, the per-frame      *)
(* update with its calls of advance, the default onFrame listener and the  *)
(* requests for the next frame.                                            *)
(***************************************************************************)
EXTENDS Integers, Sequences, FiniteSets, TLC

VARIABLES
  controllers,  \* FrameLoop.controllers: the Map, as its entries in insertion order
  idle,         \* FrameLoop.idle
  lastTime,     \* FrameLoop.lastTime: a number or undefined
  pending,      \* frames requested through requestFrame and not yet delivered
  configIdle,   \* config.idle of every ActiveAnimation
  animated,     \* the fields of every animated value
  woke,         \* history: no update has run since start last cleared idle
  op,           \* history: what the last operation was and what it did
  trial,        \* the ActiveAnimation that advance is called with on its own
  store,        \* the fields of the animated values of the trial and of its leader
  call          \* history: the last call of advance on its own and what it did

vars == <<controllers, idle, lastTime, pending, configIdle, animated, woke, op,
          trial, store, call>>

----------------------------------------------------------------------------
(* Bounds and program constants *)

\* the clamp of the frame delta
MaxDelta == 64
\* a gap between two frames below the clamp
SmallGap == 30
\* a gap between two frames far above the clamp
BigGap == 1000
\* the duration of the timed animations
Duration == 60
\* at most this many frame requests are outstanding
MaxPending == 1
\* advance is called on its own until a value has this much elapsed time
MaxElapsed == 400
\* numbers in [0,1] (progress, eased progress) are held in 1/Scale units
Scale == 1000

----------------------------------------------------------------------------
(* JavaScript values *)

Undefined == [type |-> "undefined", val |-> 0]
Num(n) == [type |-> "number", val |-> n]
Str(n) == [type |-> "string", val |-> n]
Ref(a) == [type |-> "animated", val |-> a]
Bool(b) == [type |-> "boolean", val |-> IF b THEN 1 ELSE 0]
List(q) == [type |-> "array", val |-> q]

\* a value that a condition takes as true
Truthy(v) == v.type # "undefined" /\ v.val # 0

Min(x, y) == IF x < y THEN x ELSE y
Abs(x) == IF x < 0 THEN -x ELSE x

\* a / b rounded toward zero, b > 0
Quot(a, b) == IF a < 0 THEN -((-a) \div b) ELSE a \div b

\* the timestamps a frame can carry
Times == {0, SmallGap, SmallGap + BigGap}

----------------------------------------------------------------------------
(* The controllers, their animations and their animated values *)

NoCtrl == "none"
Ctrls == {"a", "b"}

\* ctrl.id
CtrlId(c) == IF c = "a" THEN 1 ELSE 2

\* ctrl.props.onFrame is set
HasOnFrame(c) == c = "a"

\* ctrl.configs
CtrlConfigs(c) ==
  CASE c = "a" -> <<"A", "S">>
    [] c = "b" -> <<"B">>

ConfigIds == {"A", "S", "B"}
Values == {"a1", "s1", "b1"}

\* easing: progress to eased progress, both in 1/Scale units
Linear(p) == p

\* the fields of an ActiveAnimation that advance reads
Config(k) ==
  CASE k = "A" -> [key |-> "A", immediate |-> FALSE, duration |-> Num(Duration),
                   progress |-> 0, animatedValues |-> <<"a1">>,
                   fromValues |-> <<Num(0)>>, toValues |-> <<Num(100)>>]
    [] k = "B" -> [key |-> "B", immediate |-> FALSE, duration |-> Num(Duration),
                   progress |-> 0, animatedValues |-> <<"b1">>,
                   fromValues |-> <<Num(40)>>, toValues |-> <<Num(-20)>>]
    [] k = "S" -> [key |-> "S", immediate |-> FALSE, duration |-> Num(Duration),
                   progress |-> 0, animatedValues |-> <<"s1">>,
                   fromValues |-> <<Str(1)>>, toValues |-> <<Str(2)>>]

\* the config and the index of an animated value
ConfigOf(a) == CHOOSE k \in ConfigIds :
                 \E i \in 1..Len(Config(k).animatedValues) : Config(k).animatedValues[i] = a
IndexOf(a) == CHOOSE i \in 1..Len(Config(ConfigOf(a)).animatedValues) :
                 Config(ConfigOf(a)).animatedValues[i] = a

\* an animated value as its controller sets it up for a new animation
Fresh(a) ==
  LET from == Config(ConfigOf(a)).fromValues[IndexOf(a)] IN
  [done |-> FALSE, value |-> from, elapsedTime |-> 0,
   lastPosition |-> IF from.type = "number" THEN from.val ELSE 0,
   lastVelocity |-> Undefined, tempPosition |-> 0, tempVelocity |-> 0]

----------------------------------------------------------------------------
(* The Map of controllers *)

Keys(m) == [n \in 1..Len(m) |-> m[n].id]
Has(m, id) == \E n \in 1..Len(m) : m[n].id = id
Get(m, id) == IF Has(m, id) THEN m[CHOOSE n \in 1..Len(m) : m[n].id = id].ctrl ELSE NoCtrl
MapSet(m, id, c) ==
  IF Has(m, id)
  THEN [n \in 1..Len(m) |-> IF m[n].id = id THEN [id |-> id, ctrl |-> c] ELSE m[n]]
  ELSE Append(m, [id |-> id, ctrl |-> c])
IsNot(id, e) == e.id # id
MapDelete(m, id) == SelectSeq(m, LAMBDA e : IsNot(id, e))

----------------------------------------------------------------------------
(* advance: one animation forward by one frame *)

\* Numbers are fixed-point: a position n stands for n / Scale, a velocity n
\* for n / Scale positions per ms, a factor (progress, decay, clamp, e) n for
\* n / Scale, a time for ms.

\* the sub-step state rk4 caches on the value (animated.tempPosition and
\* animated.tempVelocity); the other easings leave it as it is
NoTemp == [set |-> FALSE, position |-> 0, velocity |-> 0]

\* the duration easing of a numeric value: position, velocity, finished
\* the progress is not capped at 1
DurationEasing_Unclamped(dt, config, from, to, elapsed, lastPosition) ==
  LET ratio == IF config.duration.val = 0 THEN Scale
               ELSE (elapsed * Scale) \div config.duration.val
      p == config.progress + ((Scale - config.progress) * ratio) \div Scale
      position == from + (Linear(p) * (to - from)) \div Scale
  IN [position |-> position,
      velocity |-> ((position - lastPosition) * Scale) \div dt,
      finished |-> p = Scale,
      to |-> to, bouncing |-> FALSE, computed |-> 0, precision |-> 0,
      temp |-> NoTemp]

DurationEasing(dt, config, from, to, elapsed, lastPosition) ==
  LET ratio == IF config.duration.val = 0 THEN Scale
               ELSE Min(Scale, (elapsed * Scale) \div config.duration.val)
      p == config.progress + ((Scale - config.progress) * ratio) \div Scale
      position == from + (Linear(p) * (to - from)) \div Scale
  IN [position |-> position,
      velocity |-> ((position - lastPosition) * Scale) \div dt,
      finished |-> p = Scale,
      to |-> to, bouncing |-> FALSE, computed |-> 0, precision |-> 0,
      temp |-> NoTemp]

RECURSIVE ExpNeg(_)
\* Math.exp(-x) for x >= 0
ExpNeg(x) ==
  IF 8 * x <= Scale
  THEN (Scale - x) + (x * x) \div (2 * Scale) - (x * x * x) \div (6 * Scale * Scale)
  ELSE (ExpNeg(x \div 2) * ExpNeg(x - (x \div 2))) \div Scale

\* Array.isArray(config.initialVelocity) ? config.initialVelocity[i] : config.initialVelocity
InitialVelocity(config, i) ==
  IF config.initialVelocity.type = "array"
  THEN config.initialVelocity.val[i]
  ELSE config.initialVelocity.val

\* config.precision || Math.min(1, Math.abs(to - from) / 1000)
Precision(config, from, to) ==
  IF config.precision # 0 THEN config.precision
  ELSE Min(Scale, Abs(to - from) \div 1000)

\* config.decay === true ? 0.998 : config.decay
DecayRate(config) ==
  IF config.decay = Bool(TRUE) THEN (998 * Scale) \div 1000 ELSE config.decay.val

\* the decay easing without the re-target on finish
DecayEasing_KeepsTarget(config, from, to, v0, elapsed, lastPosition) ==
  LET decay == DecayRate(config)
      e == ExpNeg((Scale - decay) * elapsed)
      position == from + Quot(v0 * (Scale - e), (Scale - decay) * Scale)
  IN [position |-> position,
      velocity |-> Quot(v0 * e, Scale),
      finished |-> Abs(lastPosition - position) * 10 < Scale,
      to |-> to,
      bouncing |-> FALSE, computed |-> 0, precision |-> 0,
      temp |-> NoTemp]

\* the decay easing: position, velocity, finished, and to set to the position
\* when it is finished
DecayEasing(config, from, to, v0, elapsed, lastPosition) ==
  LET decay == DecayRate(config)
      e == ExpNeg((Scale - decay) * elapsed)
      position == from + Quot(v0 * (Scale - e), (Scale - decay) * Scale)
      finished == Abs(lastPosition - position) * 10 < Scale
  IN [position |-> position,
      velocity |-> Quot(v0 * e, Scale),
      finished |-> finished,
      to |-> IF finished THEN position ELSE to,
      bouncing |-> FALSE, computed |-> 0, precision |-> 0,
      temp |-> NoTemp]

\* the sub-step of the spring methods, in 1/Scale ms:
\* configStep > 20 ? (configStep / config.w0) * 0.001 : configStep
SpringStep(config) ==
  LET configStep == IF config.step # 0 THEN config.step ELSE 50 IN
  IF configStep > 20
  THEN Quot(configStep * Scale * Scale, config.w0 * 1000)
  ELSE configStep * Scale

\* Math.ceil(dt / step)
NumSteps(dt, step) == (dt * Scale + step - 1) \div step

RECURSIVE euler(_, _, _, _, _, _)
\* n sub-steps of euler()
euler(n, step, config, to, position, velocity) ==
  IF n = 0 THEN [position |-> position, velocity |-> velocity]
  ELSE LET springForce == Quot(Quot(-config.tension * (position - to), 1000) * Scale, 1000)
           dampingForce == Quot(-config.friction * velocity, 1000)
           acceleration == Quot(springForce + dampingForce, config.mass)
           v == velocity + Quot(acceleration * step, Scale)
       IN euler(n - 1, step, config, to, position + Quot(v * step, Scale * Scale), v)

RECURSIVE verlet(_, _, _, _, _, _)
\* n sub-steps of verlet()
verlet(n, step, config, to, position, velocity) ==
  IF n = 0 THEN [position |-> position, velocity |-> velocity]
  ELSE LET friction == config.friction
           tension == config.tension
           mass == config.mass
           v == Quot((2 * Scale - friction * step) * velocity, 2 * Scale + step)
                + Quot(2 * step * (-tension * (position - to)),
                       mass * (2 * Scale + friction * step)) * Scale
                - Quot(2 * Scale * tension * Scale,
                       mass * (2 * Scale + friction * step)) * Scale
       IN verlet(n - 1, step, config, to, position + Quot(v * step, Scale * Scale), v)

\* a * b / c rounded toward zero for b, c > 0, the product taken in two parts
MulDiv(a, b, c) ==
  IF a < 0
  THEN -(((-a) \div c) * b + (((-a) % c) * b) \div c)
  ELSE (a \div c) * b + ((a % c) * b) \div c

\* a / b rounded to the nearest, b > 0
Nearest(a, b) == Quot(2 * a + (IF a < 0 THEN -b ELSE b), 2 * b)

\* position + rate * step * 0.001 * (1 / parts), the rate in units per second
Moved(position, rate, step, parts) ==
  position + Nearest(Quot(rate, Scale) * step, Scale * 1000 * parts)

\* velocity + rate * step * 0.001 * (1 / parts)
Sped(velocity, rate, step, parts) == velocity + MulDiv(rate, step, 1000 * parts)

\* (tension * (to - position) - friction * velocity) / config.mass
Acceleration(config, to, position, velocity) ==
  Quot(config.tension * (to - position) - MulDiv(velocity, config.friction, Scale),
       config.mass)

RECURSIVE rk4(_, _, _, _, _, _, _, _)
\* n sub-steps of rk4(); the first stage takes its acceleration at
\* tempPosition, which is what the sub-step before left there
rk4(n, step, config, to, position, velocity, tempPosition, tempVelocity) ==
  IF n = 0
  THEN [position |-> position, velocity |-> velocity,
        temp |-> [set |-> TRUE, position |-> tempPosition, velocity |-> tempVelocity]]
  ELSE LET aAcceleration == Acceleration(config, to, tempPosition, velocity)
           bVelocity == Sped(velocity, aAcceleration, step, 2)
           bAcceleration == Acceleration(config, to, Moved(position, velocity, step, 2),
                                         bVelocity)
           cVelocity == Sped(velocity, bAcceleration, step, 2)
           cAcceleration == Acceleration(config, to, Moved(position, bVelocity, step, 2),
                                         cVelocity)
           dPosition == Moved(position, cVelocity, step, 1)
           dVelocity == Sped(velocity, cAcceleration, step, 1)
           dAcceleration == Acceleration(config, to, dPosition, dVelocity)
           dxdt == Quot(velocity + 2 * (bVelocity + cVelocity) + dVelocity, 6)
           dvdt == Quot(aAcceleration + 2 * (bAcceleration + cAcceleration)
                        + dAcceleration, 6)
       IN rk4(n - 1, step, config, to, Moved(position, dxdt, step, 1),
              Sped(velocity, dvdt, step, 1), dPosition, dVelocity)

RECURSIVE SqrtFrom(_, _)
\* the largest r' >= r with r' * r' <= n
SqrtFrom(n, r) == IF (r + 1) * (r + 1) > n THEN r ELSE SqrtFrom(n, r + 1)

\* Math.sqrt(k / m) / 1000, the undamped angular frequency in rad/ms
AngularFrequency(config) ==
  SqrtFrom((((config.tension * Scale) \div (config.mass * 1000)) * Scale) \div 1000, 0)

\* zeta === 1, with zeta = c / (2 * Math.sqrt(k * m))
CriticallyDamped(config) ==
  config.friction * config.friction = 4 * config.tension * config.mass

\* zeta < 1
UnderDamped(config) ==
  config.friction * config.friction < 4 * config.tension * config.mass

\* analytical(): the closed form at the elapsed time t.  The critically damped
\* branch is modelled; the other two need sin, cos, sinh and cosh, and no
\* animation of the model takes them.
analytical(config, from, to, v0, t) ==
  CASE CriticallyDamped(config) ->
    [position |-> to - Quot(ExpNeg(AngularFrequency(config) * t)
                            * ((to - from)
                               + Quot((-v0 + AngularFrequency(config) * (to - from)) * t,
                                      Scale)),
                            Scale),
     velocity |-> Quot(ExpNeg(AngularFrequency(config) * t)
                       * (Quot(-v0 * (t * AngularFrequency(config) - Scale), Scale)
                          + Quot(t * (to - from) * AngularFrequency(config), Scale)
                            * AngularFrequency(config)),
                       Scale)]

\* the position of simple() at the elapsed time t; the branch of zeta < 1 needs
\* sin and cos, and no animation of the model takes it
SimplePosition(config, from, to, v0, t) ==
  CASE ~UnderDamped(config) ->
    to - Quot(ExpNeg(AngularFrequency(config) * t)
              * ((to - from)
                 + Quot((v0 + AngularFrequency(config) * (to - from)) * t, Scale)),
              Scale)

\* simple(): the velocity is the difference quotient over the frame
simple(dt, config, from, to, v0, t, prevPosition) ==
  [position |-> SimplePosition(config, from, to, v0, t),
   velocity |-> Quot((SimplePosition(config, from, to, v0, t) - prevPosition) * Scale, dt)]

\* what a method without sub-step state computes, as the step reports it
Plain(m) == [position |-> m.position, velocity |-> m.velocity, temp |-> NoTemp]

\* animated.lastVelocity !== void 0 ? animated.lastVelocity : v0
StartVelocity(value, v0) ==
  IF value.lastVelocity # Undefined THEN value.lastVelocity.val ELSE v0

\* a switch whose default is the closed form
SpringMethod_DefaultAnalytical(dt, config, from, to, v0, elapsed, value) ==
  CASE config.method = "rk4" ->
         rk4(NumSteps(dt, SpringStep(config)), SpringStep(config), config, to,
             value.lastPosition, StartVelocity(value, v0),
             IF value.tempPosition # 0 THEN value.tempPosition ELSE value.lastPosition,
             IF value.tempVelocity # 0 THEN value.tempVelocity
             ELSE StartVelocity(value, v0))
    [] config.method = "simple" ->
         Plain(simple(dt, config, from, to, v0, elapsed, value.lastPosition))
    [] config.method = "verlet" ->
         Plain(verlet(NumSteps(dt, SpringStep(config)), SpringStep(config), config, to,
                      value.lastPosition, 0))
    [] config.method = "euler" ->
         Plain(euler(NumSteps(dt, SpringStep(config)), SpringStep(config), config, to,
                     value.lastPosition, StartVelocity(value, v0)))
    [] OTHER -> Plain(analytical(config, from, to, v0, elapsed))

\* switch (config.config.method): the position and the velocity the method
\* computes, and the sub-step state it leaves; euler() is the default
SpringMethod(dt, config, from, to, v0, elapsed, value) ==
  CASE config.method = "analytical" ->
         Plain(analytical(config, from, to, v0, elapsed))
    [] config.method = "rk4" ->
         rk4(NumSteps(dt, SpringStep(config)), SpringStep(config), config, to,
             value.lastPosition, StartVelocity(value, v0),
             IF value.tempPosition # 0 THEN value.tempPosition ELSE value.lastPosition,
             IF value.tempVelocity # 0 THEN value.tempVelocity
             ELSE StartVelocity(value, v0))
    [] config.method = "simple" ->
         Plain(simple(dt, config, from, to, v0, elapsed, value.lastPosition))
    [] config.method = "verlet" ->
         Plain(verlet(NumSteps(dt, SpringStep(config)), SpringStep(config), config, to,
                      value.lastPosition, 0))
    [] OTHER ->
         Plain(euler(NumSteps(dt, SpringStep(config)), SpringStep(config), config, to,
                     value.lastPosition, StartVelocity(value, v0)))

\* a bounce that the settle check never sees
IsBouncing_Always(config, from, to, position, velocity) ==
  IF from < to THEN position > to /\ velocity > 0
  ELSE position < to /\ velocity < 0

\* isBouncing
IsBouncing(config, from, to, position, velocity) ==
  IF config.clamp # Bool(FALSE) /\ config.tension # 0
  THEN IF from < to THEN position > to /\ velocity > 0
       ELSE position < to /\ velocity < 0
  ELSE FALSE

\* a settle check that looks at the displacement also without tension
Settled_AlwaysDisplacement(config, to, position, velocity, precision) ==
  /\ Abs(velocity) <= precision * Scale
  /\ Abs(to - position) <= precision

\* isVelocity && isDisplacement
Settled(config, to, position, velocity, precision) ==
  /\ Abs(velocity) <= precision * Scale
  /\ IF config.tension # 0 THEN Abs(to - position) <= precision ELSE TRUE

\* Conditions for stopping the spring animation, m being the position and the
\* velocity the method computed
SpringCheck(config, from, to, m, precision) ==
  LET isBouncing == IsBouncing(config, from, to, m.position, m.velocity)
      velocity == IF isBouncing
                  THEN Quot(-m.velocity * (IF config.clamp.type = "number"
                                           THEN config.clamp.val ELSE 0), Scale)
                  ELSE m.velocity
  IN [position |-> m.position,
      velocity |-> velocity,
      finished |-> (isBouncing /\ velocity = 0)
                   \/ Settled(config, to, m.position, velocity, precision),
      to |-> to, bouncing |-> isBouncing, computed |-> m.velocity,
      precision |-> precision, temp |-> m.temp]

\* the spring easing
SpringEasing(dt, config, from, to, v0, elapsed, value) ==
  SpringCheck(config, from, to,
              SpringMethod(dt, config, from, to, v0, elapsed, value),
              Precision(config, from, to))

\* the easing the config selects
Easing(dt, config, i, from, to, elapsed, value) ==
  IF config.duration # Undefined
  THEN DurationEasing(dt, config, from, to, elapsed, value.lastPosition)
  ELSE IF Truthy(config.decay)
  THEN DecayEasing(config, from, to, InitialVelocity(config, i), elapsed, value.lastPosition)
  ELSE SpringEasing(dt, config, from, to, InitialVelocity(config, i), elapsed, value)

\* a trail that concludes without its parent
Conclude_WithoutParent(value, r, elapsed, parentDone) ==
  LET position == IF r.finished /\ value.value # Num(r.to) THEN r.to ELSE r.position
  IN [val |-> [value EXCEPT !.done = r.finished, !.value = Num(position),
                            !.elapsedTime = elapsed, !.lastPosition = position,
                            !.lastVelocity = Num(r.velocity),
                            !.tempPosition = IF r.temp.set THEN r.temp.position ELSE @,
                            !.tempVelocity = IF r.temp.set THEN r.temp.velocity ELSE @],
      active |-> ~r.finished,
      step |-> r]

\* Trails aren't done until their parents conclude; a value that is done ends
\* on to unless it was there before the call
Conclude(value, r, elapsed, parentDone) ==
  LET ends == r.finished /\ parentDone
      position == IF ends /\ value.value # Num(r.to) THEN r.to ELSE r.position
  IN [val |-> [value EXCEPT !.done = ends, !.value = Num(position),
                            !.elapsedTime = elapsed, !.lastPosition = position,
                            !.lastVelocity = Num(r.velocity),
                            !.tempPosition = IF r.temp.set THEN r.temp.position ELSE @,
                            !.tempVelocity = IF r.temp.set THEN r.temp.velocity ELSE @],
      active |-> ~ends,
      step |-> r]

\* what the jump of an immediate animation reports
NoStep == [position |-> 0, velocity |-> 0, finished |-> TRUE, to |-> 0,
           bouncing |-> FALSE, computed |-> 0, precision |-> 0,
      temp |-> NoTemp]

\* a jump that leaves the value to be advanced again
Jump_NotDone(value, to) ==
  [val |-> [value EXCEPT !.value = to], active |-> TRUE, step |-> NoStep]

\* Jump to end value for immediate animations
Jump(value, to) ==
  [val |-> [value EXCEPT !.value = to, !.done = TRUE], active |-> FALSE, step |-> NoStep]

\* a loop body that takes for to what the target was set up with
AdvanceValue_Snapshot(dt, config, i, an) ==
  LET a == config.animatedValues[i]
      to0 == config.toValues[i]
      hasTarget == to0.type = "animated"
      to == IF hasTarget THEN Num(0) ELSE to0
      from == config.fromValues[i]
  IN IF config.immediate \/ from.type = "string" \/ to.type = "string"
     THEN Jump(an[a], to)
     ELSE Conclude(an[a],
                   Easing(dt, config, i, from.val, to.val, an[a].elapsedTime + dt, an[a]),
                   an[a].elapsedTime + dt,
                   ~(hasTarget /\ ~an[to0.val].done))

\* the body of advance's loop for the value at index i, which is not done:
\* the new fields of the value, whether it is still active, and what the
\* easing computed
AdvanceValue(dt, config, i, an) ==
  LET a == config.animatedValues[i]
      to0 == config.toValues[i]
      hasTarget == to0.type = "animated"
      to == IF hasTarget THEN an[to0.val].value ELSE to0
      from == config.fromValues[i]
  IN IF config.immediate \/ from.type = "string" \/ to.type = "string"
     THEN Jump(an[a], to)
     ELSE Conclude(an[a],
                   Easing(dt, config, i, from.val, to.val, an[a].elapsedTime + dt, an[a]),
                   an[a].elapsedTime + dt,
                   ~(hasTarget /\ ~an[to0.val].done))

\* a loop whose result is that of the last value it advanced
Stepped_LastWins(acc, i, a, r) ==
  [animated |-> [acc.animated EXCEPT ![a] = r.val],
   active |-> r.active,
   changed |-> TRUE,
   steps |-> Append(acc.steps, [i |-> i, step |-> r.step])]

\* the loop's state after the value at index i, r being what its body left
Stepped(acc, i, a, r) ==
  [animated |-> [acc.animated EXCEPT ![a] = r.val],
   active |-> acc.active \/ r.active,
   changed |-> TRUE,
   steps |-> Append(acc.steps, [i |-> i, step |-> r.step])]

\* a loop that skips no value
IsDone_Never(value) == FALSE

\* if (animated.done) continue
IsDone(value) == value.done

RECURSIVE AdvanceFrom(_, _, _, _)
\* advance's loop over config.animatedValues from index i on; acc is
\* [animated, active, changed, steps]
AdvanceFrom(i, dt, config, acc) ==
  IF i > Len(config.animatedValues) THEN acc
  ELSE IF IsDone(acc.animated[config.animatedValues[i]])
  THEN AdvanceFrom(i + 1, dt, config, acc)
  ELSE AdvanceFrom(i + 1, dt, config,
         Stepped(acc, i, config.animatedValues[i],
                 AdvanceValue(dt, config, i, acc.animated)))

\* config.animated.getValue(): the values of the animation
GetValue(config, an) ==
  [i \in 1..Len(config.animatedValues) |-> an[config.animatedValues[i]].value]

\* changes is null or an array: null is [isNull |-> TRUE]
Null == [isNull |-> TRUE, items |-> <<>>]
Array(items) == [isNull |-> FALSE, items |-> items]

\* the end of advance, r being what its loop left:
\* if (changes && changed) changes.push([config.key, getValue()]); return active
PushChange(config, changes, r) ==
  [animated |-> r.animated,
   changes |-> IF ~changes.isNull /\ r.changed
               THEN Array(Append(changes.items, <<config.key, GetValue(config, r.animated)>>))
               ELSE changes,
   active |-> r.active,
   changed |-> r.changed,
   steps |-> r.steps,
   toValues |-> config.toValues]

\* advance(dt, config, changes): the values and the changes after it, what it
\* returns (active), whether it met a value that was not done (changed), what
\* the easing of each such value computed (steps), and config.toValues, which
\* no line of it assigns
advance(dt, config, changes, an) ==
  PushChange(config, changes,
             AdvanceFrom(1, dt, config,
                         [animated |-> an, active |-> FALSE, changed |-> FALSE,
                          steps |-> <<>>]))

----------------------------------------------------------------------------
(* The frame loop: start, stop, update and the default onFrame.  A frame     *)
(* loop fl is [controllers, idle, lastTime, requests]; requests counts the   *)
(* calls of requestFrame made so far by the operation that is running.       *)

FrameLoop(m, i, t) == [controllers |-> m, idle |-> i, lastTime |-> t, requests |-> 0]

\* this.requestFrame(this.update)
requestFrame(fl) == [fl EXCEPT !.requests = @ + 1]

\* start that leaves an idle frame loop idle
start_StaysIdle(fl, ctrl) ==
  LET fl1 == [fl EXCEPT !.controllers = MapSet(@, CtrlId(ctrl), ctrl)] IN
  IF fl1.idle THEN requestFrame([fl1 EXCEPT !.lastTime = Undefined]) ELSE fl1

\* start that keeps the last-tick timestamp of the run before
start_KeepsLastTime(fl, ctrl) ==
  LET fl1 == [fl EXCEPT !.controllers = MapSet(@, CtrlId(ctrl), ctrl)] IN
  IF fl1.idle THEN requestFrame([fl1 EXCEPT !.idle = FALSE]) ELSE fl1

\* start(ctrl)
start(fl, ctrl) ==
  LET fl1 == [fl EXCEPT !.controllers = MapSet(@, CtrlId(ctrl), ctrl)] IN
  IF fl1.idle
  THEN requestFrame([fl1 EXCEPT !.idle = FALSE, !.lastTime = Undefined])
  ELSE fl1

\* stop that sets idle itself once the registry is empty
stop_SetsIdle(fl, ctrl) ==
  LET m == MapDelete(fl.controllers, CtrlId(ctrl)) IN
  [fl EXCEPT !.controllers = m, !.idle = (@ \/ Len(m) = 0)]

\* stop(ctrl)
stop(fl, ctrl) == [fl EXCEPT !.controllers = MapDelete(@, CtrlId(ctrl))]

\* a call of start or stop made by a callback that runs inside a frame: while
\* the first group is advanced (a value that is set notifies its observers),
\* or from the first controller that onFrame notifies
NoReentry == [kind |-> "none", ctrl |-> NoCtrl, at |-> "none"]
ReentOps == [kind : {"start", "stop"}, ctrl : Ctrls, at : {"advance", "listener"}]
Reenter(rop, fl) ==
  CASE rop.kind = "start" -> start(fl, rop.ctrl)
    [] rop.kind = "stop" -> stop(fl, rop.ctrl)
    [] OTHER -> fl

\* if (this.advance(dt, config, changes)) idle = false, r being what the
\* advance call of config k left
Advanced(acc, ctrl, k, dt, r) ==
  [animated |-> r.animated,
   changes |-> r.changes,
   idle |-> acc.idle /\ ~r.active,
   changed |-> acc.changed \/ r.changed,
   calls |-> Append(acc.calls,
                    [ctrl |-> ctrl, config |-> k, dt |-> dt, active |-> r.active])]

RECURSIVE AdvanceConfigs(_, _, _, _, _)
\* update's loop over ctrl.configs from index n on; acc is
\* [animated, changes, idle, changed, calls]
AdvanceConfigs(ctrl, n, dt, cidle, acc) ==
  IF n > Len(CtrlConfigs(ctrl)) THEN acc
  ELSE LET k == CtrlConfigs(ctrl)[n] IN
       IF cidle[k] THEN AdvanceConfigs(ctrl, n + 1, dt, cidle, acc)
       ELSE AdvanceConfigs(ctrl, n + 1, dt, cidle,
              Advanced(acc, ctrl, k, dt,
                       advance(dt, Config(k), acc.changes, acc.animated)))

\* a push for idle groups only
PushUpdate_OnlyIdle(updates, id, isIdle, changes) ==
  IF isIdle
  THEN Append(updates, [id |-> id, idle |-> isIdle, changes |-> changes])
  ELSE updates

\* if (idle || changes) updates.push([id, idle, changes])
PushUpdate(updates, id, isIdle, changes) ==
  IF isIdle \/ ~changes.isNull
  THEN Append(updates, [id |-> id, idle |-> isIdle, changes |-> changes])
  ELSE updates

\* ctrl.props.onFrame ? [] : null
NewChanges(ctrl) == IF HasOnFrame(ctrl) THEN Array(<<>>) ELSE Null

\* the end of the loop's body for the group id, r being what the loop over
\* its configs left; fires says that a callback ran while it was advanced
Visited(st, id, ctrl, r, rop, fires) ==
  [fl |-> IF fires THEN Reenter(rop, st.fl) ELSE st.fl,
   animated |-> r.animated,
   updates |-> PushUpdate(st.updates, id, r.idle, r.changes),
   calls |-> r.calls,
   visited |-> Append(st.visited, ctrl),
   threw |-> FALSE,
   lost |-> 0,
   reent |-> IF fires THEN rop ELSE st.reent]

\* the loop's body for the group id, whose controller the Map still holds
Visit(st, n, id, ctrl, dt, cidle, rop, r) ==
  Visited(st, id, ctrl, r, rop, rop.at = "advance" /\ n = 1 /\ r.changed)

RECURSIVE UpdateLoop(_, _, _, _, _, _)
\* update's loop over the captured ids from index n on; st is
\* [fl, animated, updates, calls, visited, threw, lost, reent]
UpdateLoop(ids, n, dt, cidle, st, rop) ==
  IF n > Len(ids) \/ st.threw THEN st
  ELSE LET id == ids[n]
           ctrl == Get(st.fl.controllers, id)
       IN IF ctrl = NoCtrl
          THEN [st EXCEPT !.threw = TRUE, !.lost = id]
          ELSE UpdateLoop(ids, n + 1, dt, cidle,
                 Visit(st, n, id, ctrl, dt, cidle, rop,
                       AdvanceConfigs(ctrl, 1, dt, cidle,
                          [animated |-> st.animated,
                           changes |-> NewChanges(ctrl),
                           idle |-> TRUE, changed |-> FALSE, calls |-> st.calls])),
                 rop)

\* Controller.onFrame(update): a controller whose animations are all idle
\* marks them idle and stops itself
CtrlOnFrame(ctrl, upd, s) ==
  IF upd.idle
  THEN [s EXCEPT !.fl = stop(@, ctrl),
                 !.configIdle = [k \in ConfigIds |->
                    IF \E n \in 1..Len(CtrlConfigs(ctrl)) : CtrlConfigs(ctrl)[n] = k
                    THEN TRUE ELSE @[k]]]
  ELSE s

RECURSIVE onFrame(_, _, _, _)
\* the default onFrame(updates) from index j on; s is [fl, configIdle, reent]
onFrame(updates, j, s, rop) ==
  IF j > Len(updates) THEN s
  ELSE LET ctrl == Get(s.fl.controllers, updates[j].id) IN
       IF ctrl = NoCtrl THEN onFrame(updates, j + 1, s, rop)
       ELSE LET s1 == CtrlOnFrame(ctrl, updates[j], s)
                fires == rop.at = "listener" /\ s.reent = NoReentry
            IN onFrame(updates, j + 1,
                 IF fires THEN [s1 EXCEPT !.fl = Reenter(rop, @), !.reent = rop] ELSE s1,
                 rop)

\* onFrame called only with a batch that holds a record
Notify_IfAny(updates, s, rop) ==
  IF Len(updates) = 0 THEN s
  ELSE [onFrame(updates, 1, s, rop) EXCEPT !.notified = @ + 1]

\* this.onFrame(updates), once
Notify(updates, s, rop) == [onFrame(updates, 1, s, rop) EXCEPT !.notified = @ + 1]

\* an update that does not look at idle
IsIdle_Never(fl) == FALSE

\* if (this.idle) return false
IsIdle(fl) == fl.idle

\* a missing timestamp taken as time zero
ResolveLastTime_Zero(fl, time) == IF fl.lastTime # Undefined THEN fl.lastTime ELSE Num(0)

\* this.lastTime !== void 0 ? this.lastTime : time
ResolveLastTime(fl, time) == IF fl.lastTime # Undefined THEN fl.lastTime ELSE Num(time)

\* if (dt > 64) dt = 64
ClampDelta(dt) == IF dt > MaxDelta THEN MaxDelta ELSE dt

\* returning true without the request for the next frame
KeepGoing_NoRequest(fl) == [fl |-> fl, ret |-> "true"]

\* Keep going: request the next frame and return true
KeepGoing(fl) == [fl |-> requestFrame(fl), ret |-> "true"]

\* an update that never sets idle
Finish_NeverIdle(fl) == KeepGoing(fl)

\* Are we done yet? An empty registry sets idle and returns false
Finish(fl) ==
  IF Len(fl.controllers) = 0
  THEN [fl |-> [fl EXCEPT !.idle = TRUE], ret |-> "false"]
  ELSE KeepGoing(fl)

\* what an update that did nothing reports
NoWork == [integrated |-> FALSE, dt |-> 0, captured |-> <<>>, calls |-> <<>>,
           visited |-> <<>>, notified |-> 0, updates |-> <<>>, reent |-> NoReentry,
           lost |-> 0]

\* what an update that integrated reports, st being what its loop left
Did(st, ids, dt) ==
  [integrated |-> TRUE, dt |-> dt, captured |-> ids, calls |-> st.calls,
   visited |-> st.visited, notified |-> 0, updates |-> st.updates,
   reent |-> st.reent, lost |-> st.lost]

\* the end of an update that notified, s being what onFrame left:
\* this.lastTime = time, then the check for an empty registry
Notified(st, s, time, did) ==
  LET end == Finish([s.fl EXCEPT !.lastTime = Num(time)]) IN
  [fl |-> end.fl, configIdle |-> s.configIdle, animated |-> st.animated,
   ret |-> end.ret,
   did |-> [did EXCEPT !.notified = s.notified, !.reent = s.reent]]

\* an update that calls onFrame also when its loop was cut short
Integrate_NotifiesAnyway(st, ids, dt, cidle, time, rop) ==
  Notified(st,
           Notify(st.updates,
                  [fl |-> st.fl, configIdle |-> cidle, reent |-> st.reent,
                   notified |-> 0], rop),
           time, Did(st, ids, dt))

\* the rest of an update that integrates, st being what its loop left: the
\* TypeError of a group that is gone ends it, else onFrame is called
Integrate(st, ids, dt, cidle, time, rop) ==
  IF st.threw
  THEN [fl |-> st.fl, configIdle |-> cidle, animated |-> st.animated,
        ret |-> "throw", did |-> Did(st, ids, dt)]
  ELSE Notified(st,
                Notify(st.updates,
                       [fl |-> st.fl, configIdle |-> cidle, reent |-> st.reent,
                        notified |-> 0], rop),
                time, Did(st, ids, dt))

\* update(time): the frame loop, the configs and the values after it, what it
\* returns ("throw" when it ends in a TypeError) and what it did
update(fl, cidle, an, time, rop) ==
  IF IsIdle(fl)
  THEN [fl |-> fl, configIdle |-> cidle, animated |-> an, ret |-> "false", did |-> NoWork]
  ELSE
    LET fl0 == [fl EXCEPT !.lastTime = ResolveLastTime(fl, time)]
        dt0 == time - fl0.lastTime.val
    IN IF dt0 > 0
       THEN Integrate(
              UpdateLoop(Keys(fl0.controllers), 1, ClampDelta(dt0), cidle,
                [fl |-> fl0, animated |-> an, updates |-> <<>>, calls |-> <<>>,
                 visited |-> <<>>, threw |-> FALSE, lost |-> 0, reent |-> NoReentry],
                rop),
              Keys(fl0.controllers), ClampDelta(dt0), cidle, time, rop)
       ELSE LET end == KeepGoing(fl0) IN
            [fl |-> end.fl, configIdle |-> cidle, animated |-> an, ret |-> end.ret,
             did |-> [NoWork EXCEPT !.dt = dt0]]

----------------------------------------------------------------------------
(* The state machine *)

NotWoken == [fresh |-> FALSE, stale |-> Undefined]

\* no call of advance on its own yet
NoCall == [kind |-> "new", dt |-> 0, pre |-> <<>>, active |-> FALSE, changed |-> FALSE,
           steps |-> <<>>, changes |-> Null, toValues |-> <<>>]

\* the frame loop as an operation finds it
Pre == [controllers |-> controllers, idle |-> idle, lastTime |-> lastTime,
        pending |-> pending, woke |-> woke]

Op(name, ctrl, time, ret, requests, did, pre) ==
  [name |-> name, ctrl |-> ctrl, time |-> time, ret |-> ret, requests |-> requests,
   did |-> did, pre |-> pre]

Init ==
  /\ controllers = <<>>
  /\ idle = TRUE
  /\ lastTime = Undefined
  /\ pending = 0
  /\ configIdle = [k \in ConfigIds |-> FALSE]
  /\ animated = [a \in Values |-> Fresh(a)]
  /\ woke = NotWoken
  /\ op = Op("new", NoCtrl, 0, "none", 0, NoWork,
             [controllers |-> <<>>, idle |-> TRUE, lastTime |-> Undefined,
              pending |-> 0, woke |-> NotWoken])
  /\ trial = Config("A")
  /\ store = [a \in Values |-> Fresh(a)]
  /\ call = NoCall

\* frameLoop.start(ctrl)
Start(c) ==
  /\ idle => pending < MaxPending
  /\ \E fl \in {start(FrameLoop(controllers, idle, lastTime), c)} :
       /\ controllers' = fl.controllers
       /\ idle' = fl.idle
       /\ lastTime' = fl.lastTime
       /\ pending' = pending + fl.requests
       /\ woke' = IF idle THEN [fresh |-> TRUE, stale |-> lastTime] ELSE woke
       /\ op' = Op("start", c, 0, "none", fl.requests, NoWork, Pre)
  /\ UNCHANGED <<configIdle, animated, trial, store, call>>

\* frameLoop.stop(ctrl)
Stop(c) ==
  /\ \E fl \in {stop(FrameLoop(controllers, idle, lastTime), c)} :
       /\ controllers' = fl.controllers
       /\ idle' = fl.idle
       /\ lastTime' = fl.lastTime
       /\ pending' = pending + fl.requests
       /\ op' = Op("stop", c, 0, "none", fl.requests, NoWork, Pre)
  /\ UNCHANGED <<configIdle, animated, woke, trial, store, call>>

\* a call of frameLoop.update(time); delivered is 1 when the host makes it to
\* deliver a requested frame and 0 when it is called directly
Update(time, rop, delivered) ==
  \E r \in {update(FrameLoop(controllers, idle, lastTime), configIdle, animated,
                   time, rop)} :
     /\ controllers' = r.fl.controllers
     /\ idle' = r.fl.idle
     /\ lastTime' = r.fl.lastTime
     /\ pending' = (pending - delivered) + r.fl.requests
     /\ configIdle' = r.configIdle
     /\ animated' = r.animated
     /\ woke' = IF idle THEN woke ELSE NotWoken
     /\ op' = Op(IF delivered = 1 THEN "tick" ELSE "update", NoCtrl, time, r.ret,
                 r.fl.requests, r.did, Pre)
     /\ UNCHANGED <<trial, store, call>>

\* the host delivers a requested frame
Tick ==
  /\ pending > 0
  /\ \E t \in Times, rop \in ReentOps \cup {NoReentry} : Update(t, rop, 1)

\* update is called directly
CallUpdate ==
  /\ pending < MaxPending
  /\ \E t \in Times, rop \in ReentOps \cup {NoReentry} : Update(t, rop, 0)

\* a controller sets its animations up anew
Reset(c) ==
  /\ configIdle' = [k \in ConfigIds |->
       IF \E n \in 1..Len(CtrlConfigs(c)) : CtrlConfigs(c)[n] = k
       THEN FALSE ELSE configIdle[k]]
  /\ animated' = [a \in Values |->
       IF \E n \in 1..Len(CtrlConfigs(c)) : CtrlConfigs(c)[n] = ConfigOf(a)
       THEN Fresh(a) ELSE animated[a]]
  /\ op' = Op("reset", c, 0, "none", 0, NoWork, Pre)
  /\ UNCHANGED <<controllers, idle, lastTime, pending, woke, trial, store, call>>

Next ==
  \/ \E c \in Ctrls : Start(c)
  \/ \E c \in Ctrls : Stop(c)
  \/ Tick
  \/ CallUpdate
  \/ \E c \in Ctrls : Reset(c)

Spec == Init /\ [][Next]_vars

\* the frame loop with a host that calls update only to deliver a frame that
\* was requested
NextFrames ==
  \/ \E c \in Ctrls : Start(c)
  \/ \E c \in Ctrls : Stop(c)
  \/ Tick
  \/ \E c \in Ctrls : Reset(c)

SpecFrames == Init /\ [][NextFrames]_vars

----------------------------------------------------------------------------
(* advance on its own: one ActiveAnimation (the trial) with the value "x",   *)
(* called again and again with the deltas a frame can carry.  The value "y"  *)
(* is the leader that a trail follows; it has an animation of its own.       *)

\* an animated value as its controller sets it up for an animation from `from`
FreshAt(from) ==
  [done |-> FALSE, value |-> from, elapsedTime |-> 0,
   lastPosition |-> IF from.type = "number" THEN from.val ELSE 0,
   lastVelocity |-> Undefined, tempPosition |-> 0, tempVelocity |-> 0]

\* a spring animation of "x" from 0 to 1 that the others are written from
\* (method is config.config.method as the switch sees it: a name, or the empty
\* name for a config without one)
Animation(key) ==
  [key |-> key, immediate |-> FALSE, duration |-> Undefined, decay |-> Undefined,
   progress |-> 0, animatedValues |-> <<"x">>,
   fromValues |-> <<Num(0)>>, toValues |-> <<Num(1000)>>,
   initialVelocity |-> Num(0), precision |-> 0,
   tension |-> 5000, friction |-> 100, mass |-> 1,
   clamp |-> Bool(FALSE), method |-> "euler", step |-> 10, w0 |-> 5]

\* the animation of the leader
Leader ==
  [Animation("leader") EXCEPT !.animatedValues = <<"y">>, !.duration = Num(Duration)]

Trials ==
  { [Animation("immediate") EXCEPT !.immediate = TRUE, !.toValues = <<Num(10)>>],
    [Animation("immediate2") EXCEPT !.immediate = TRUE, !.animatedValues = <<"x", "y">>,
        !.fromValues = <<Num(0), Num(0)>>, !.toValues = <<Num(10), Str(2)>>],
    [Animation("string") EXCEPT !.fromValues = <<Str(1)>>, !.toValues = <<Str(2)>>],
    [Animation("immediateTrail") EXCEPT !.immediate = TRUE, !.toValues = <<Ref("y")>>],
    [Animation("duration") EXCEPT !.duration = Num(Duration)],
    [Animation("duration0") EXCEPT !.duration = Num(0)],
    [Animation("durationTrail") EXCEPT !.duration = Num(Duration), !.toValues = <<Ref("y")>>],
    [Animation("decay") EXCEPT !.decay = Num(900), !.initialVelocity = Num(1000000)],
    [Animation("decayTrue") EXCEPT !.decay = Bool(TRUE), !.initialVelocity = List(<<2000>>)],
    Animation("spring"),
    [Animation("springStep") EXCEPT !.step = 0],
    [Animation("springTrail") EXCEPT !.toValues = <<Ref("y")>>],
    [Animation("springDown") EXCEPT !.fromValues = <<Num(1000)>>, !.toValues = <<Num(0)>>,
        !.friction = 60, !.clamp = Bool(TRUE)],
    [Animation("springLoose") EXCEPT !.friction = 60],
    [Animation("springClamp") EXCEPT !.friction = 60, !.clamp = Bool(TRUE)],
    [Animation("springBounce") EXCEPT !.friction = 60, !.clamp = Num(500)],
    [Animation("springNoClamp") EXCEPT !.friction = 60, !.clamp = Undefined],
    [Animation("springNoTension") EXCEPT !.tension = 0, !.friction = 50,
        !.initialVelocity = Num(20000)],
    [Animation("springThrown") EXCEPT !.tension = 0, !.friction = 50, !.clamp = Bool(TRUE),
        !.initialVelocity = Num(150000)],
    [Animation("springNudge") EXCEPT !.toValues = <<Num(0)>>, !.friction = 50,
        !.precision = 10, !.initialVelocity = Num(1000)],
    [Animation("verlet") EXCEPT !.method = "verlet", !.tension = 1, !.friction = 1,
        !.step = 2],
    [Animation("pairLeads") EXCEPT !.duration = Num(Duration),
        !.animatedValues = <<"y", "x">>, !.fromValues = <<Num(0), Num(0)>>,
        !.toValues = <<Num(1000), Ref("y")>>],
    [Animation("pairFollows") EXCEPT !.duration = Num(Duration),
        !.animatedValues = <<"x", "y">>, !.fromValues = <<Num(0), Num(0)>>,
        !.toValues = <<Ref("y"), Num(1000)>>],
    [Animation("rk4") EXCEPT !.method = "rk4"],
    [Animation("analytical") EXCEPT !.method = "analytical", !.tension = 2500],
    [Animation("simple") EXCEPT !.method = "simple", !.tension = 2500],
    [Animation("simpleStiff") EXCEPT !.method = "simple", !.tension = 2500,
        !.friction = 120],
    [Animation("springPlain") EXCEPT !.method = "", !.tension = 2500, !.precision = 5],
    [Animation("springOdd") EXCEPT !.method = "bogus", !.tension = 2500, !.precision = 5],
    [Animation("springRest") EXCEPT !.fromValues = <<Num(1000)>>],
    [Animation("verletRest") EXCEPT !.method = "verlet", !.tension = 1, !.friction = 1,
        !.step = 2, !.fromValues = <<Num(1000)>>],
    [Animation("rk4Rest") EXCEPT !.method = "rk4", !.fromValues = <<Num(1000)>>] }

\* the index of the value a in the animation, 0 when it is not one of its values
Position(config, a) ==
  IF \E i \in 1..Len(config.animatedValues) : config.animatedValues[i] = a
  THEN CHOOSE i \in 1..Len(config.animatedValues) : config.animatedValues[i] = a
  ELSE 0

\* the deltas that update calls advance with
Deltas == {SmallGap, MaxDelta}

\* a value of the trial follows the leader
HasTarget(config) ==
  \E i \in 1..Len(config.toValues) : config.toValues[i].type = "animated"

InitAdvance ==
  /\ controllers = <<>>
  /\ idle = TRUE
  /\ lastTime = Undefined
  /\ pending = 0
  /\ configIdle = [k \in ConfigIds |-> FALSE]
  /\ animated = [a \in Values |-> Fresh(a)]
  /\ woke = NotWoken
  /\ op = Op("new", NoCtrl, 0, "none", 0, NoWork,
             [controllers |-> <<>>, idle |-> TRUE, lastTime |-> Undefined,
              pending |-> 0, woke |-> NotWoken])
  /\ trial \in Trials
  /\ store = [a \in {"x", "y"} |->
                IF Position(trial, a) # 0
                THEN FreshAt(trial.fromValues[Position(trial, a)])
                ELSE FreshAt(Leader.fromValues[1])]
  /\ call = NoCall

\* the record of a call of advance
Called(kind, dt, r) ==
  [kind |-> kind, dt |-> dt, pre |-> store, active |-> r.active, changed |-> r.changed,
   steps |-> r.steps, changes |-> r.changes, toValues |-> r.toValues]

\* this.advance(dt, config, changes) with the trial
Advance(dt, listening) ==
  /\ \A a \in DOMAIN store : store[a].elapsedTime < MaxElapsed
  /\ \E r \in {advance(dt, trial, IF listening THEN Array(<<>>) ELSE Null, store)} :
       /\ store' = r.animated
       /\ call' = Called("trial", dt, r)
  /\ UNCHANGED <<controllers, idle, lastTime, pending, configIdle, animated, woke, op,
                 trial>>

\* this.advance(dt, config, changes) with the animation of the leader
AdvanceLeader(dt) ==
  /\ HasTarget(trial)
  /\ Position(trial, "y") = 0
  /\ \E r \in {advance(dt, Leader, Null, store)} :
       /\ store' = r.animated
       /\ call' = Called("leader", dt, r)
  /\ UNCHANGED <<controllers, idle, lastTime, pending, configIdle, animated, woke, op,
                 trial>>

NextAdvance ==
  \/ \E dt \in Deltas, listening \in BOOLEAN : Advance(dt, listening)
  \/ \E dt \in Deltas : AdvanceLeader(dt)

SpecAdvance == InitAdvance /\ [][NextAdvance]_vars

----------------------------------------------------------------------------
(* Properties of start, stop and update *)

IsUpdate(o) == o.name \in {"tick", "update"}
Delivered(o) == IF o.name = "tick" THEN 1 ELSE 0
Ids == {CtrlId(c) : c \in Ctrls}
IsNotId(id, k) == k # id

\* the delta of an update, from its time and the last-tick timestamp it found
\* (a missing timestamp counts as the time itself)
DeltaOf(o) == IF o.pre.lastTime = Undefined THEN 0 ELSE o.time - o.pre.lastTime.val

\* a registered controller has an animation that is not idle with a value
\* that is not done
SomethingToAdvance(m) ==
  \E n \in 1..Len(m) : \E j \in 1..Len(CtrlConfigs(m[n].ctrl)) :
    LET k == CtrlConfigs(m[n].ctrl)[j] IN
    /\ ~configIdle[k]
    /\ \E i \in 1..Len(Config(k).animatedValues) : ~animated[Config(k).animatedValues[i]].done

\* C1: start on an idle frame loop clears idle and the last-tick timestamp and
\* requests exactly one frame; start on a frame loop that is not idle requests
\* none and leaves the timestamp alone. Either way the controller is registered
\* under its id, the other entries and their order are kept, and a start made
\* from inside an update (never idle) adds no request to the update's own.
C1_StartRegistersAndRequests ==
  /\ op.name = "start" =>
       /\ Get(controllers, CtrlId(op.ctrl)) = op.ctrl
       /\ \A id \in Ids \ {CtrlId(op.ctrl)} :
            Get(controllers, id) = Get(op.pre.controllers, id)
       /\ Keys(controllers) =
            IF Has(op.pre.controllers, CtrlId(op.ctrl))
            THEN Keys(op.pre.controllers)
            ELSE Append(Keys(op.pre.controllers), CtrlId(op.ctrl))
       /\ ~idle
       /\ IF op.pre.idle
          THEN lastTime = Undefined /\ op.requests = 1 /\ pending = op.pre.pending + 1
          ELSE lastTime = op.pre.lastTime /\ op.requests = 0 /\ pending = op.pre.pending
  /\ (IsUpdate(op) /\ op.did.reent.kind = "start") =>
       op.requests = (IF op.ret = "true" THEN 1 ELSE 0)

\* start on an idle frame loop that still held the timestamp of an earlier run
C1_Witness ==
  /\ op.name = "start"
  /\ op.pre.idle
  /\ op.pre.lastTime # Undefined
  /\ lastTime = Undefined
  /\ op.requests = 1

\* C2 as stated: every update on a frame loop that is not idle and has an empty
\* registry sets idle and requests no frame, whatever its time; and while idle
\* nothing but start requests a frame.
C2_IdleOnEveryEmptyUpdate ==
  /\ (IsUpdate(op) /\ ~op.pre.idle /\ Len(op.pre.controllers) = 0) =>
       (idle /\ op.requests = 0)
  /\ (op.pre.idle /\ op.name \notin {"start", "new"}) => (idle /\ op.requests = 0)

\* C2 amended: an update on a frame loop that is not idle and has an empty
\* registry sets idle, returns false and requests no frame when its delta is > 0;
\* when its delta is <= 0 it leaves idle false and requests a frame. While idle
\* nothing but start requests a frame.
C2_IdleOnEmptyUpdateWithDelta ==
  /\ (IsUpdate(op) /\ ~op.pre.idle /\ Len(op.pre.controllers) = 0) =>
       IF DeltaOf(op) > 0
       THEN /\ idle
            /\ op.ret = "false"
            /\ op.requests = 0
            /\ pending = op.pre.pending - Delivered(op)
       ELSE ~idle /\ op.ret = "true" /\ op.requests = 1
  /\ (op.pre.idle /\ op.name \notin {"start", "new"}) => (idle /\ op.requests = 0)

\* an update with a positive delta found the registry empty and set idle
C2_Witness ==
  /\ IsUpdate(op)
  /\ ~op.pre.idle
  /\ Len(op.pre.controllers) = 0
  /\ DeltaOf(op) > 0
  /\ idle

\* C3: update on an idle frame loop returns false, calls neither advance nor
\* onFrame nor requestFrame, and leaves the registry, idle and the last-tick
\* timestamp as they were.
C3_UpdateWhileIdleIsNoOp ==
  (IsUpdate(op) /\ op.pre.idle) =>
    /\ op.ret = "false"
    /\ op.did.calls = <<>>
    /\ op.did.notified = 0
    /\ op.requests = 0
    /\ pending = op.pre.pending - Delivered(op)
    /\ controllers = op.pre.controllers
    /\ idle
    /\ lastTime = op.pre.lastTime

\* update ran on a frame loop that had gone idle after an earlier run
C3_Witness ==
  /\ IsUpdate(op)
  /\ op.pre.idle
  /\ op.pre.lastTime # Undefined
  /\ op.time > op.pre.lastTime.val

\* C4: stop removes the entry with the controller's id and nothing else: the
\* other entries keep their controllers and their order, and idle, the
\* last-tick timestamp, the outstanding requests, the configs and the values
\* are unchanged; with no such entry nothing at all changes.
C4_StopRemovesOnlyItsEntry ==
  [][op'.name = "stop" =>
       /\ ~Has(controllers', CtrlId(op'.ctrl))
       /\ \A id \in Ids \ {CtrlId(op'.ctrl)} : Get(controllers', id) = Get(controllers, id)
       /\ Keys(controllers') =
            SelectSeq(Keys(controllers), LAMBDA k : IsNotId(CtrlId(op'.ctrl), k))
       /\ (~Has(controllers, CtrlId(op'.ctrl)) => controllers' = controllers)
       /\ op'.requests = 0
       /\ UNCHANGED <<idle, lastTime, pending, configIdle, animated, woke>>]_vars

\* stop removed one of two registered controllers from a running frame loop
C4_Witness ==
  /\ op.name = "stop"
  /\ ~op.pre.idle
  /\ Len(op.pre.controllers) = 2
  /\ Len(controllers) = 1
  /\ pending = 1

\* the values that the calls of advance in calls take down the numeric path
AdvancedNumeric(a, calls) ==
  LET k == ConfigOf(a)
      i == IndexOf(a)
  IN /\ \E n \in 1..Len(calls) : calls[n].config = k
     /\ ~animated[a].done
     /\ ~Config(k).immediate
     /\ Config(k).fromValues[i].type = "number"
     /\ Config(k).toValues[i].type = "number"

\* C5 as stated: in every update that integrates, each call of advance gets
\* min(time - lastTime, 64), which is in (0, 64]; each value taken down the
\* numeric path gains exactly that much elapsed time; and lastTime becomes time,
\* so that nothing of the gap is carried into later updates.
C5_DeltaIsClampedGap ==
  [][(IsUpdate(op') /\ op'.did.integrated) =>
       LET d == Min(op'.time - lastTime.val, MaxDelta) IN
       /\ lastTime # Undefined
       /\ 0 < d
       /\ d <= MaxDelta
       /\ \A n \in 1..Len(op'.did.calls) : op'.did.calls[n].dt = d
       /\ \A a \in Values :
            AdvancedNumeric(a, op'.did.calls) =>
              animated'[a].elapsedTime = animated[a].elapsedTime + d
       /\ lastTime' = Num(op'.time)]_vars

\* C6: an update on a frame loop that is not idle whose delta is <= 0 calls
\* advance for no config and changes no value and no config, and still
\* requests one frame and returns true.
C6_NoIntegrationWithoutDelta ==
  [][(IsUpdate(op') /\ ~idle /\ (lastTime = Undefined \/ op'.time <= lastTime.val)) =>
       /\ op'.did.calls = <<>>
       /\ animated' = animated
       /\ configIdle' = configIdle
       /\ op'.requests = 1
       /\ pending' = (pending - Delivered(op')) + 1
       /\ op'.ret = "true"]_vars

\* an update carried a time before the last tick while a value was waiting
C6_Witness ==
  /\ IsUpdate(op)
  /\ ~op.pre.idle
  /\ op.pre.lastTime # Undefined
  /\ op.time < op.pre.lastTime.val
  /\ SomethingToAdvance(controllers)
  /\ op.requests = 1

\* C7: the first update after start cleared idle has delta 0 and integrates
\* nothing, whatever its time and whatever timestamp the run before left.
C7_FirstUpdateHasNoDelta ==
  [][(IsUpdate(op') /\ ~idle /\ woke.fresh) =>
       /\ op'.did.dt = 0
       /\ ~op'.did.integrated
       /\ op'.did.calls = <<>>
       /\ animated' = animated
       /\ lastTime' = Num(op'.time)]_vars

\* the first update after a start came later than the tick the run before
\* ended with, while a value was waiting
C7_Witness ==
  /\ IsUpdate(op)
  /\ ~op.pre.idle
  /\ op.pre.woke.fresh
  /\ op.pre.woke.stale # Undefined
  /\ op.time > op.pre.woke.stale.val
  /\ SomethingToAdvance(controllers)

NoActiveCall(c, calls) == \A n \in 1..Len(calls) : calls[n].ctrl = c => ~calls[n].active
WantsUpdate(c, calls) == NoActiveCall(c, calls) \/ HasOnFrame(c)

\* C9: the batch of an update that integrates holds, in the order of the
\* groups advanced, one record for each of them that has a listener or whose
\* calls of advance all returned false, and none for the others; the record's
\* idle says that no call returned true, and its changes is null exactly when
\* the group has no listener.
C9_BatchRecords ==
  (IsUpdate(op) /\ op.did.integrated) =>
    LET want == SelectSeq(op.did.visited, LAMBDA c : WantsUpdate(c, op.did.calls)) IN
    /\ Len(op.did.updates) = Len(want)
    /\ \A n \in 1..Len(want) :
         /\ op.did.updates[n].id = CtrlId(want[n])
         /\ op.did.updates[n].idle = NoActiveCall(want[n], op.did.calls)
         /\ op.did.updates[n].changes.isNull = ~HasOnFrame(want[n])

\* two groups were advanced and both stay active: the one with a listener got
\* a record, the one without got none
C9_Witness ==
  /\ IsUpdate(op)
  /\ op.did.notified = 1
  /\ Len(op.did.visited) = 2
  /\ Len(op.did.updates) = 1
  /\ ~op.did.updates[1].idle
  /\ ~op.did.updates[1].changes.isNull
  /\ \E n \in 1..Len(op.did.calls) :
       ~HasOnFrame(op.did.calls[n].ctrl) /\ op.did.calls[n].active

\* C10 as stated: when a callback run while the first group is advanced stops
\* a group whose id the update has captured and not yet reached, the update
\* still advances that group, calls onFrame, sets lastTime and returns; the
\* group is gone from the registry afterwards.
C10_StoppedGroupIsAdvancedOnceMore ==
  (/\ IsUpdate(op)
   /\ op.did.reent.kind = "stop"
   /\ op.did.reent.at = "advance"
   /\ \E n \in 2..Len(op.did.captured) : op.did.captured[n] = CtrlId(op.did.reent.ctrl))
  => /\ op.ret # "throw"
     /\ \E n \in 2..Len(op.did.visited) : op.did.visited[n] = op.did.reent.ctrl
     /\ op.did.notified = 1
     /\ lastTime = Num(op.time)
     /\ ~Has(controllers, CtrlId(op.did.reent.ctrl))

\* the sequence q holds its elements in the order of the sequence w, each at
\* most once
InOrderOf(q, w) ==
  \E f \in [1..Len(q) -> 1..Len(w)] :
    /\ \A n \in 1..Len(q) : q[n] = w[f[n]]
    /\ \A n \in 1..Len(q), m \in 1..Len(q) : n < m => f[n] < f[m]

\* C23: an update that calls onFrame has by then called advance for every
\* config that is not idle of every group whose id it captured, and has
\* called it for no other group; the records of the batch are in the order
\* of the captured ids, at most one for an id
C23_BatchIsWholeAndOrdered ==
  [][(IsUpdate(op') /\ op'.did.notified = 1) =>
       /\ \A n \in 1..Len(op'.did.captured) :
            LET c == Get(controllers, op'.did.captured[n]) IN
            \A j \in 1..Len(CtrlConfigs(c)) :
              ~configIdle[CtrlConfigs(c)[j]] =>
                \E m \in 1..Len(op'.did.calls) :
                  /\ op'.did.calls[m].ctrl = c
                  /\ op'.did.calls[m].config = CtrlConfigs(c)[j]
       /\ \A m \in 1..Len(op'.did.calls) :
            \E n \in 1..Len(op'.did.captured) :
              op'.did.captured[n] = CtrlId(op'.did.calls[m].ctrl)
       /\ op'.did.captured = Keys(controllers)
       /\ InOrderOf([n \in 1..Len(op'.did.updates) |-> op'.did.updates[n].id],
                    op'.did.captured)]_vars

\* onFrame got the records of two groups, after all three of their configs
\* were advanced
C23_Witness ==
  /\ IsUpdate(op)
  /\ op.did.notified = 1
  /\ Len(op.did.captured) = 2
  /\ Len(op.did.calls) = 3
  /\ Len(op.did.updates) = 2
  /\ op.did.updates[1].id = op.did.captured[1]
  /\ op.did.updates[2].id = op.did.captured[2]

\* C25: an idle frame loop has an empty registry: start clears idle, and
\* idle is set only by an update that ends with the registry empty. (An
\* empty registry does not make the frame loop idle: C25_EmptyButNotIdle is
\* reachable.)
C25_IdleHasNoGroups ==
  /\ idle => Len(controllers) = 0
  /\ op.name = "start" => ~idle
  /\ (idle /\ ~op.pre.idle) => (IsUpdate(op) /\ op.ret = "false")

\* an update that found a group registered ends idle: the group went idle
\* and was removed during the notification
C25_Witness ==
  /\ IsUpdate(op)
  /\ ~op.pre.idle
  /\ Len(op.pre.controllers) > 0
  /\ op.did.notified = 1
  /\ idle
  /\ Len(controllers) = 0

\* stop emptied the registry and the frame loop is not idle
C25_EmptyButNotIdle ==
  /\ op.name = "stop"
  /\ Len(op.pre.controllers) = 1
  /\ Len(controllers) = 0
  /\ ~idle

\* C26: when update runs only to deliver a requested frame, between the
\* operations one frame request is outstanding while the frame loop is not
\* idle and none while it is idle
C26_OneFrameOutstanding ==
  pending = (IF idle THEN 0 ELSE 1)

\* C28: a frame loop whose groups are all stopped becomes idle and stays
\* without a frame request, given that every requested frame is delivered.
\* For that every delivered frame must leave the frame loop idle with no
\* request outstanding or request the next frame, and as the claim says it
\* requests the next frame whenever a group is still registered
C28_TickRequestsOrIdles ==
  (op.name = "tick" /\ ~op.pre.idle) =>
    /\ (idle /\ pending = 0) \/ (op.requests = 1 /\ pending = 1)
    /\ Len(controllers) > 0 => op.requests = 1

----------------------------------------------------------------------------
(* Properties of advance *)

\* the last call of advance was made with the trial
IsTrial == call.kind = "trial"

\* the indices of the triples of the trial
Triples == 1..Len(trial.animatedValues)

\* the triple at index i takes the immediate path in the last call: the config
\* is flagged immediate, or from or the resolved to is a string
TakesJump(i) ==
  \/ trial.immediate
  \/ trial.fromValues[i].type = "string"
  \/ IF trial.toValues[i].type = "animated"
     THEN call.pre[trial.toValues[i].val].value.type = "string"
     ELSE trial.toValues[i].type = "string"

\* the to of the triple at index i as the last call resolved it
ResolvedTo(i) ==
  IF trial.toValues[i].type = "animated"
  THEN call.pre[trial.toValues[i].val].value
  ELSE trial.toValues[i]

\* C11: one call of advance on an immediate config, or on triples whose from
\* or resolved to is a string, sets every value that was not done to its
\* resolved to and marks it done, whatever the delta, and returns inactive
C11_ImmediateJumps ==
  IsTrial /\ (\A i \in Triples : TakesJump(i)) =>
    /\ \A i \in Triples :
         ~call.pre[trial.animatedValues[i]].done =>
           /\ store[trial.animatedValues[i]].done
           /\ store[trial.animatedValues[i]].value = ResolvedTo(i)
    /\ ~call.active
    /\ \A i \in Triples : store[trial.animatedValues[i]].done

\* the first call on the immediate config from 0 to 10, made with the largest
\* delta, left the value at 10 and done
C11_Witness ==
  /\ IsTrial
  /\ trial.key = "immediate"
  /\ call.dt = MaxDelta
  /\ ~call.pre["x"].done
  /\ call.pre["x"].value = Num(0)
  /\ store["x"].done
  /\ store["x"].value = Num(10)
  /\ ~call.active

\* the target of the triple at index i as the last call found it when it came
\* to the triple: as the call left it when the call advanced it before the
\* triple, else as it was before the call
TargetWhen(i) ==
  IF Position(trial, trial.toValues[i].val) \in 1..(i - 1)
  THEN store[trial.toValues[i].val]
  ELSE call.pre[trial.toValues[i].val]

\* the triple at index i follows a value that was not done when the last call
\* came to the triple, and was not done itself
FollowsUnfinished(i) ==
  /\ trial.toValues[i].type = "animated"
  /\ ~TargetWhen(i).done
  /\ ~call.pre[trial.animatedValues[i]].done

\* what the easing computed in the last call for the triple at index i
StepOf(i) == (CHOOSE e \in {call.steps[n] : n \in 1..Len(call.steps)} : e.i = i).step

C13_DoneUntouched ==
  call.kind # "new" =>
    \A a \in DOMAIN store :
      call.pre[a].done => store[a] = call.pre[a] /\ store[a].done

\* a settled spring is advanced again by a whole frame and nothing of it moves
C13_Witness ==
  /\ IsTrial
  /\ trial.key = "spring"
  /\ call.dt = MaxDelta
  /\ call.pre["x"].done
  /\ call.pre["x"].elapsedTime > 0
  /\ store["x"] = call.pre["x"]
  /\ ~call.active

\* the trial is a duration animation from progress 0 to numeric targets
TimedToNumbers ==
  /\ ~HasTarget(trial)
  /\ trial.duration # Undefined
  /\ trial.progress = 0
  /\ \A i \in Triples : ~TakesJump(i)

\* C14: a duration animation of D ms from progress 0 to a number is done with
\* its value equal to the target once the deltas it was advanced by add up to
\* D or more, and is not done while they add up to less
C14_DurationExact ==
  TimedToNumbers =>
    \A i \in Triples :
      LET value == store[trial.animatedValues[i]]
      IN /\ value.elapsedTime > 0 /\ value.elapsedTime >= trial.duration.val =>
              value.done /\ value.value = trial.toValues[i]
         /\ value.elapsedTime < trial.duration.val => ~value.done

\* a frame that starts short of the duration and reaches it ends the
\* animation on its target
C14_Witness ==
  /\ IsTrial
  /\ TimedToNumbers
  /\ trial.duration.val > 0
  /\ ~call.pre["x"].done
  /\ call.pre["x"].elapsedTime > 0
  /\ call.pre["x"].elapsedTime < trial.duration.val
  /\ store["x"].elapsedTime >= trial.duration.val
  /\ store["x"].done
  /\ store["x"].value = trial.toValues[1]

\* the trial is a spring with positive tension, friction and mass that moves
\* to numeric targets
DampedSpring ==
  /\ ~HasTarget(trial)
  /\ trial.duration = Undefined
  /\ ~Truthy(trial.decay)
  /\ trial.tension > 0 /\ trial.friction > 0 /\ trial.mass > 0
  /\ \A i \in Triples : ~TakesJump(i)

\* the last call found the value of the triple at index i not done and left
\* it not done, at the position and with the velocity it had
Stalled(i) ==
  LET before == call.pre[trial.animatedValues[i]]
      after == store[trial.animatedValues[i]]
  IN /\ ~before.done /\ ~after.done
     /\ after.value = before.value
     /\ after.lastPosition = before.lastPosition
     /\ after.lastVelocity = before.lastVelocity

\* C15: a damped spring that is advanced by a fixed delta is done after a
\* bounded number of calls. A spring step reads only the value, its last
\* position and its last velocity, so a call that leaves all three as they
\* were and the value not done repeats for ever under the same delta: no call
\* may stall
C15_NoSpringStalls ==
  IsTrial /\ DampedSpring => \A i \in Triples : ~Stalled(i)

\* the last call advanced the triple at index i of a decay config and the
\* step settled: |lastPosition - position| < 0.1
DecaySettles(i) ==
  /\ IsTrial
  /\ trial.duration = Undefined
  /\ Truthy(trial.decay)
  /\ ~TakesJump(i)
  /\ ~call.pre[trial.animatedValues[i]].done
  /\ StepOf(i).finished

MarkedDone(i) ==
  /\ IsTrial
  /\ ~TakesJump(i)
  /\ ~call.pre[trial.animatedValues[i]].done
  /\ store[trial.animatedValues[i]].done

\* C18: a value that advance marks done on the numeric path is stored, and
\* its last position recorded, at the to of that step exactly
C18_DoneValueIsAtTo ==
  \A i \in Triples :
    MarkedDone(i) =>
      /\ store[trial.animatedValues[i]].value = Num(StepOf(i).to)
      /\ store[trial.animatedValues[i]].lastPosition = StepOf(i).to

\* the last call advanced the triple at index i in the spring model
SpringStepped(i) ==
  /\ IsTrial
  /\ trial.duration = Undefined
  /\ ~Truthy(trial.decay)
  /\ ~TakesJump(i)
  /\ ~call.pre[trial.animatedValues[i]].done

\* |velocity| <= precision and (tension == 0 or |to - position| <= precision)
\* on what the step s computed
AtRest(s) ==
  /\ Abs(s.velocity) <= s.precision * Scale
  /\ trial.tension = 0 \/ Abs(s.to - s.position) <= s.precision

\* C19: a spring step that detects no overshoot meets the value's own
\* termination condition exactly when |velocity| <= precision and
\* (tension == 0 or |to - position| <= precision) on what it computed; a
\* value with no target to wait for is then done, and is not done otherwise
C19_SettlesAtRest ==
  \A i \in Triples :
    SpringStepped(i) /\ ~StepOf(i).bouncing =>
      /\ StepOf(i).finished <=> AtRest(StepOf(i))
      /\ ~HasTarget(trial) =>
           (store[trial.animatedValues[i]].done <=> AtRest(StepOf(i)))

\* without tension a value comes to rest away from its target and is done
C19_Witness ==
  /\ SpringStepped(1)
  /\ trial.tension = 0
  /\ ~StepOf(1).bouncing
  /\ StepOf(1).velocity # 0
  /\ Abs(StepOf(1).to - StepOf(1).position) > StepOf(1).precision
  /\ StepOf(1).finished
  /\ store["x"].done

\* position past to in the direction from -> to with the velocity pointing
\* away from to, on what the method computed in the step s of the triple at i
Overshoot(i, s) ==
  IF trial.fromValues[i].val < s.to
  THEN s.position > s.to /\ s.computed > 0
  ELSE s.position < s.to /\ s.computed < 0

\* clamping is enabled: config.clamp is anything but false
ClampEnabled == trial.clamp # Bool(FALSE)

\* C20: in a spring step an overshoot is acted on exactly when clamping is
\* enabled and tension is not 0. A clamp that is not a number then sets the
\* velocity to zero and the step meets the termination condition; a numeric
\* clamp c makes the velocity -c times what the method computed. Otherwise
\* the velocity is what the method computed and the step meets the
\* termination condition only when the value is at rest
C20_OvershootIsClamped ==
  \A i \in Triples :
    SpringStepped(i) =>
      LET s == StepOf(i) IN
      /\ s.bouncing <=> (Overshoot(i, s) /\ ClampEnabled /\ trial.tension # 0)
      /\ s.bouncing /\ trial.clamp.type # "number" => s.velocity = 0 /\ s.finished
      /\ s.bouncing /\ trial.clamp.type = "number" =>
           s.velocity = Quot(-s.computed * trial.clamp.val, Scale)
      /\ ~s.bouncing => s.velocity = s.computed /\ (s.finished <=> AtRest(s))

\* a spring clamped by a boolean overshoots its target and is done there
C20_Witness ==
  /\ SpringStepped(1)
  /\ trial.clamp = Bool(TRUE)
  /\ Overshoot(1, StepOf(1))
  /\ StepOf(1).computed # 0
  /\ StepOf(1).velocity = 0
  /\ StepOf(1).position # StepOf(1).to
  /\ store["x"].done
  /\ store["x"].value = Num(StepOf(1).to)

\* the animation the last call advanced
CalledConfig == IF call.kind = "leader" THEN Leader ELSE trial

\* C21: advance returns true exactly when a value of the config has
\* done == false when the call returns
C21_ActiveIffSomeValueNotDone ==
  call.kind # "new" =>
    (call.active <=>
       \E i \in 1..Len(CalledConfig.animatedValues) :
          ~store[CalledConfig.animatedValues[i]].done)

\* the second value of an animation finishes in a call that leaves the first
\* one waiting: the call returns true
C21_Witness ==
  /\ IsTrial
  /\ trial.key = "pairFollows"
  /\ ~call.pre["y"].done
  /\ store["y"].done
  /\ ~store["x"].done
  /\ call.active

\* the last call advanced the triple at index i, whose target is a value
Followed(i) ==
  /\ IsTrial
  /\ trial.toValues[i].type = "animated"
  /\ ~call.pre[trial.animatedValues[i]].done

\* C24: the to of a triple whose target is a value is what the target holds
\* when the call comes to the triple: the target's new value when the call
\* advanced the target before the triple, else the value the target had
\* before the call. The numeric path eases towards it; the immediate path
\* stores it
C24_ToIsTheLiveValue ==
  \A i \in Triples :
    Followed(i) =>
      IF TakesJump(i)
      THEN store[trial.animatedValues[i]].value = TargetWhen(i).value
      ELSE StepOf(i).to = TargetWhen(i).value.val

\* the leader comes first in the animation and moves in the call: the
\* follower eases towards where the leader is now, not where it was
C24_Witness ==
  /\ IsTrial
  /\ trial.key = "pairLeads"
  /\ Followed(2)
  /\ store["y"].value # call.pre["y"].value
  /\ call.pre["y"].value # Num(0)
  /\ StepOf(2).to = store["y"].value.val

\* the value of the triple at index i as the last call found it
Before(i) == call.pre[trial.animatedValues[i]]

\* the number of sub-steps the last call took
SubSteps == NumSteps(call.dt, SpringStep(trial))

\* the velocity the value of the triple at index i entered the last call with
Incoming(i) == StartVelocity(Before(i), InitialVelocity(trial, i))

\* the step of the triple at index i computed the position and the velocity m
Computed(i, m) ==
  /\ StepOf(i).position = m.position
  /\ StepOf(i).computed = m.velocity

\* the names the switch has a case for
Named == {"analytical", "rk4", "simple", "verlet"}

\* C22: the method field of the config selects the method of a spring step:
\* "analytical", "rk4", "simple" and "verlet" each run the method of that
\* name, and a config whose method is absent or is any other name runs
\* euler()
C22_MethodSelectsTheStepper ==
  \A i \in Triples :
    SpringStepped(i) =>
      /\ trial.method = "analytical" =>
           Computed(i, analytical(trial, trial.fromValues[i].val, StepOf(i).to,
                                  InitialVelocity(trial, i),
                                  Before(i).elapsedTime + call.dt))
      /\ trial.method = "rk4" =>
           /\ Computed(i, rk4(SubSteps, SpringStep(trial), trial, StepOf(i).to,
                              Before(i).lastPosition, Incoming(i),
                              IF Before(i).tempPosition # 0 THEN Before(i).tempPosition
                              ELSE Before(i).lastPosition,
                              Incoming(i)))
           /\ StepOf(i).temp.set
      /\ trial.method = "simple" =>
           Computed(i, simple(call.dt, trial, trial.fromValues[i].val, StepOf(i).to,
                              InitialVelocity(trial, i),
                              Before(i).elapsedTime + call.dt, Before(i).lastPosition))
      /\ trial.method = "verlet" =>
           Computed(i, verlet(SubSteps, SpringStep(trial), trial, StepOf(i).to,
                              Before(i).lastPosition, 0))
      /\ trial.method \notin Named =>
           /\ Computed(i, euler(SubSteps, SpringStep(trial), trial, StepOf(i).to,
                                Before(i).lastPosition, Incoming(i)))
           /\ ~StepOf(i).temp.set

\* a config with a method name the switch has no case for is stepped by
\* euler(), and the closed form would have put it elsewhere
C22_Witness ==
  /\ SpringStepped(1)
  /\ trial.method = "bogus"
  /\ Before(1).lastVelocity # Undefined
  /\ Computed(1, euler(SubSteps, SpringStep(trial), trial, StepOf(1).to,
                       Before(1).lastPosition, Incoming(1)))
  /\ StepOf(1).position
       # analytical(trial, trial.fromValues[1].val, StepOf(1).to,
                    InitialVelocity(trial, 1), Before(1).elapsedTime + call.dt).position

\* the methods that integrate in sub-steps
SubStepping(method) == method \notin {"analytical", "simple"}

\* the velocity the method of the trial starts the step of the triple at
\* index i from: verlet() starts from 0, euler() and rk4() from the last
\* velocity of the value, or from the initial velocity
VelocityAtEntry(i) == IF trial.method = "verlet" THEN 0 ELSE Incoming(i)

\* the last call stepped the value of the triple at index i from its
\* equilibrium: it was at to with no velocity
SteppedFromEquilibrium(i) ==
  /\ SpringStepped(i)
  /\ SubStepping(trial.method)
  /\ trial.tension > 0 /\ trial.friction > 0 /\ trial.mass > 0
  /\ Before(i).lastPosition = StepOf(i).to
  /\ VelocityAtEntry(i) = 0

\* C27: a spring with positive tension, friction and mass that a sub-stepping
\* method steps from its equilibrium (position at to, velocity 0) is left
\* there by the step, whatever the delta: the position is to and the velocity
\* is 0 after it
C27_EquilibriumIsFixed ==
  \A i \in Triples :
    SteppedFromEquilibrium(i) =>
      /\ StepOf(i).position = StepOf(i).to
      /\ StepOf(i).computed = 0

----------------------------------------------------------------------------
(* The registry after an update pass *)

\* the last operation was an update pass, one that integrated
PassEnded == op.name \in {"tick", "update"} /\ op.did.integrated

\* the group has a config that is not idle
HasWork(ctrl) ==
  \E n \in 1..Len(CtrlConfigs(ctrl)) : ~configIdle[CtrlConfigs(ctrl)[n]]

\* the ids of the groups whose configs all reported inactive in the last pass
WentIdle ==
  {op.did.updates[n].id : n \in {m \in 1..Len(op.did.updates) : op.did.updates[m].idle}}

\* the group was started again by a callback while the last pass ran
Restarted(id) == op.did.reent.kind = "start" /\ CtrlId(op.did.reent.ctrl) = id

\* C17: at the end of an update pass every group in the registry (unless a
\* callback of the pass started it again) has a config that is not idle, and
\* a group whose configs all reported inactive in the pass is not in the
\* registry any more
C17_RegisteredGroupsHaveWork ==
  PassEnded =>
    /\ \A n \in 1..Len(controllers) :
         ~Restarted(controllers[n].id) => HasWork(controllers[n].ctrl)
    /\ \A id \in WentIdle : ~Restarted(id) => ~Has(controllers, id)

====
